---- MODULE Spec2Model ----
(***************************************************************************)
(* monday-to-azure: a Monday.com roster is pushed to the Gaggle mailing    *)
(* lists and to the Azure AD groups by a Durable Functions orchestration.  *)
(*                                                                         *)
(* Six specifications share  the variables of this module:                 *)
(*   SpecOrchestration  function_app.py: the triggers, the orchestrator    *)
(*                      monday_sync_orchestrator, its three activities     *)
(*                      and the retry options;                             *)
(*   SpecSync           gaggle_fns.py / msgraph_fns.py / email_lists.py:   *)
(*                      the reconciliation of one group against one        *)
(*                      backend, for a roster and a remote membership      *)
(*                      drawn from bounded sets;                           *)
(*   SpecResolve        email_lists.py / msgraph_fns.py: the desired       *)
(*                      members of a group, as each backend resolves them; *)
(*   SpecPool           sync_all_group_membership: the tasks of the groups *)
(*                      and of their operations in the one pool;           *)
(*   SpecIntake         function_app.py / monday_fns.py: the webhook body, *)
(*                      the input of the run, the roster fetch;            *)
(*   SpecPatch          msgraph_fns.py: the property update of one         *)
(*                      directory user from its roster entry.              *)
(* SpecPoolFair is SpecPool with the fairness of the event loop.           *)
(***************************************************************************)
EXTENDS Integers, Sequences, FiniteSets, TLC

VARIABLES
    \* ---- orchestration (function_app.py) ----
    trigger,        \* which handler started the run: "none", "timer", "webhook"
    reply,          \* what the handler gave back to its caller ("none": not yet)
    runStatus,      \* durable runtime status of the orchestration instance
    hist,           \* durable history, per stage: state, attempts, input, output
    running,        \* per stage: an activity execution is in progress on a worker
    execCount,      \* per stage: how many executions were started
    pc,             \* in-memory orchestrator: number of yields already passed
    rosterLocal,    \* in-memory orchestrator: the local variable roster (0: unset)
    failPlan,       \* environment: attempts 1..failPlan[s] of stage s raise
    restarts,       \* number of process restarts so far
    resumedFrom,    \* number of completed stages at the latest restart (-1: none)
    \* ---- reconciliation of one group (gaggle_fns.py, msgraph_fns.py) ----
    backend,        \* "gaggle" or "aad" ("none" under SpecOrchestration)
    email_list,     \* index in EMAIL_LISTS of the group being reconciled
    roster,         \* the roster snapshot, a sequence of MondayUser
    aad_groups,     \* AAD: the mail prefixes of the groups the directory has
    gaggleRemote,   \* Gaggle: the remote list, email -> name
    aadUsers,       \* AAD: the directory, a set of [id, mail]
    aadMembers,     \* AAD: ids of the members of the remote group
    email_to_aad_user, \* AAD: the users upsert_aad_users listed, by mail
    email_to_user_id, \* AAD: the dict upsert_aad_users returns
    upserted,       \* AAD: roster indexes upsert_aad_user has handled
    syncpc,         \* "idle"; "list_users", "upserting", "sync", "dispatched";
                    \* "stage_failed", "fetch_failed"
    current_members,  \* what the fetch returned (Gaggle: email -> member; AAD: set of mails)
    target_members,   \* the desired members (Gaggle: email -> member; AAD: set of mails)
    plan,           \* [toAdd, toUpdate, toRemove] as computed by the diff
    ops,            \* operations spawned into the pool and not yet run
    calls,          \* remote calls issued so far
    failures,       \* operations that raised
    \* ---- the pool of one sync stage (sync_all_group_membership) ----
    pool_backend,   \* "gaggle" or "aad" ("none" outside SpecPool)
    pool,           \* per group: its task, and the operation tasks it spawned
    pool_stage,     \* "idle"; "start", "joining", "returned"
    \* ---- the webhook request and the roster fetch ----
    request_body,   \* what triggered the run: [via, doc, length] (via "none": nothing yet)
    client_input,   \* the input the run was started with (unset: not started)
    http_response,  \* what monday_webhook answers (status_code 0: not yet)
    board_items,    \* the items of the board, as the Monday API lists them
    pull_result,    \* what pull_from_monday gave (outcome "none": not run)
    \* ---- the desired members of a group, in both backends ----
    resolve_roster, \* the roster the desired members are resolved from
    resolved,       \* [list, members, target_emails] of one group (list 0: none)
    \* ---- the property update of one directory user (msgraph_fns.py) ----
    aad_user,       \* the directory user as upsert_aad_users listed it
    roster_user,    \* the roster entry, as a directory user
    directory_user, \* the user as the directory holds it now
    patch_calls,    \* the bodies of the PATCH requests issued, in order
    patch_pc        \* "idle", "start", "in_sync", "patched", "raised"

orchVars == <<trigger, reply, runStatus, hist, running, execCount, pc,
              rosterLocal, failPlan, restarts, resumedFrom>>
syncInputs == <<backend, email_list, roster, aad_groups>>
syncVars == <<syncInputs, gaggleRemote, aadUsers, aadMembers,
              email_to_aad_user, email_to_user_id, upserted, syncpc, current_members,
              target_members, plan, ops, calls, failures>>
poolVars == <<pool_backend, pool, pool_stage>>
intakeVars == <<request_body, client_input, http_response, board_items, pull_result>>
resolveVars == <<resolve_roster, resolved>>
patchVars == <<aad_user, roster_user, directory_user, patch_calls, patch_pc>>
vars == <<orchVars, syncVars, poolVars, intakeVars, resolveVars, patchVars, patchVars>>

----------------------------------------------------------------------------
(* Bounds of the model *)

\* Attempts of one stage that the environment may make fail.
MaxFailures == 3
\* Process restarts in one run.
MaxRestarts == 2
\* Distinct roster snapshots the board may return.
MaxSnapshot == 2
\* Executions of one stage's activity (cap for the counter execCount).
MaxExecutions == 6

----------------------------------------------------------------------------
(* function_app.py: the orchestration *)

\* RetryOptions(5000, 2): first_retry_interval_in_milliseconds, max_number_of_attempts
first_retry_interval_in_milliseconds == 5000
max_number_of_attempts == 2

\* The three yields of monday_sync_orchestrator, in program order.
StageOrder == <<"pull_from_monday", "push_to_gaggle", "push_to_aad">>
Stages == {StageOrder[i] : i \in 1..Len(StageOrder)}
StageIndex(s) == CHOOSE i \in 1..Len(StageOrder) : StageOrder[i] = s

Snapshots == 1..MaxSnapshot
NoHistory == [state |-> "none", attempts |-> 0, input |-> 0, output |-> 0]

\* call_activity_with_retry on replay: the activity is scheduled only when the
\* history holds no event for it.
NeedsScheduling_direct_call(h) == h.state \in {"none", "completed"}
NeedsScheduling(h) == h.state = "none"

\* yield: the generator resumes past the yield only with the task's result.
ResultAvailable_no_wait(h) == h.state \in {"scheduled", "timer", "completed"}
ResultAvailable_swallow(h) == h.state \in {"completed", "failed"}
ResultAvailable(h) == h.state = "completed"

\* The retry policy: another attempt is made while the number of attempts made
\* is below max_number_of_attempts.
MayRetry_off_by_one(attempts) == attempts <= max_number_of_attempts
MayRetry(attempts) == attempts < max_number_of_attempts

\* What the handler gives its caller: scheduled_sync logs the instance id and
\* returns None; monday_webhook returns create_check_status_response (202),
\* whatever the status of the run is.
HandlerReply_wait_for_run(trig, status) ==
    IF status = "Failed" THEN "errored"
    ELSE IF trig = "timer" THEN "logged" ELSE "accepted"
HandlerReply(trig, status) == IF trig = "timer" THEN "logged" ELSE "accepted"

Retries(s) == IF hist[s].attempts = 0 THEN 0 ELSE hist[s].attempts - 1
Terminal == runStatus \in {"Succeeded", "Failed"}
CompletedStages == {s \in Stages : hist[s].state = "completed"}

\* scheduled_sync, up to its await: client.start_new(..., client_input={})
scheduled_sync ==
    /\ trigger = "none"
    /\ trigger' = "timer"
    /\ runStatus' = "Pending"
    /\ UNCHANGED <<reply, hist, running, execCount, pc, rosterLocal, failPlan,
                   restarts, resumedFrom, syncVars, poolVars, intakeVars, resolveVars, patchVars, patchVars>>

\* monday_webhook, up to its await: client.start_new(..., client_input=event)
monday_webhook ==
    /\ trigger = "none"
    /\ trigger' = "webhook"
    /\ runStatus' = "Pending"
    /\ UNCHANGED <<reply, hist, running, execCount, pc, rosterLocal, failPlan,
                   restarts, resumedFrom, syncVars, poolVars, intakeVars, resolveVars, patchVars, patchVars>>

\* The rest of either handler: it returns to its caller without waiting for the run.
handler_return ==
    /\ trigger # "none"
    /\ reply = "none"
    /\ reply' = HandlerReply(trigger, runStatus)
    /\ UNCHANGED <<trigger, runStatus, hist, running, execCount, pc, rosterLocal,
                   failPlan, restarts, resumedFrom, syncVars, poolVars, intakeVars, resolveVars, patchVars, patchVars>>

\* The orchestrator reaches a yield whose activity has no history: the
\* activity is scheduled with the orchestrator's local roster as its input.
orchestrator_schedule ==
    /\ runStatus \in {"Pending", "Running"}
    /\ pc < Len(StageOrder)
    /\ LET s == StageOrder[pc + 1] IN
        /\ NeedsScheduling(hist[s])
        /\ hist' = [hist EXCEPT ![s] = [state |-> "scheduled", attempts |-> 1,
                                        input |-> rosterLocal, output |-> 0]]
    /\ runStatus' = "Running"
    /\ UNCHANGED <<trigger, reply, running, execCount, pc, rosterLocal, failPlan,
                   restarts, resumedFrom, syncVars, poolVars, intakeVars, resolveVars, patchVars, patchVars>>

\* The yield returns the recorded result: roster = yield ...(pull_from_monday)
orchestrator_resume ==
    /\ runStatus \in {"Pending", "Running"}
    /\ pc < Len(StageOrder)
    /\ LET s == StageOrder[pc + 1] IN
        /\ ResultAvailable(hist[s])
        /\ rosterLocal' = IF s = "pull_from_monday" THEN hist[s].output
                          ELSE rosterLocal
    /\ pc' = pc + 1
    /\ runStatus' = "Running"
    /\ UNCHANGED <<trigger, reply, hist, running, execCount, failPlan, restarts,
                   resumedFrom, syncVars, poolVars, intakeVars, resolveVars, patchVars, patchVars>>

\* The yield raises: the retry budget of the stage is exhausted, the
\* orchestrator does not catch, the instance fails.
orchestrator_raise ==
    /\ runStatus \in {"Pending", "Running"}
    /\ pc < Len(StageOrder)
    /\ hist[StageOrder[pc + 1]].state = "failed"
    /\ runStatus' = "Failed"
    /\ UNCHANGED <<trigger, reply, hist, running, execCount, pc, rosterLocal,
                   failPlan, restarts, resumedFrom, syncVars, poolVars, intakeVars, resolveVars, patchVars, patchVars>>

\* return aad_result + gaggle_result
orchestrator_return ==
    /\ runStatus \in {"Pending", "Running"}
    /\ pc = Len(StageOrder)
    /\ runStatus' = "Succeeded"
    /\ UNCHANGED <<trigger, reply, hist, running, execCount, pc, rosterLocal,
                   failPlan, restarts, resumedFrom, syncVars, poolVars, intakeVars, resolveVars, patchVars, patchVars>>

\* A worker picks up the scheduled activity.
activity_start(s) ==
    /\ hist[s].state = "scheduled"
    /\ ~running[s]
    /\ execCount[s] < MaxExecutions
    /\ running' = [running EXCEPT ![s] = TRUE]
    /\ execCount' = [execCount EXCEPT ![s] = @ + 1]
    /\ UNCHANGED <<trigger, reply, runStatus, hist, pc, rosterLocal, failPlan,
                   restarts, resumedFrom, syncVars, poolVars, intakeVars, resolveVars, patchVars, patchVars>>

\* The activity returns: its result is recorded in the history.
activity_succeed(s) ==
    /\ running[s]
    /\ hist[s].attempts > failPlan[s]
    /\ \E snap \in Snapshots :
        hist' = [hist EXCEPT ![s].state = "completed",
                             ![s].output = IF s = "pull_from_monday" THEN snap ELSE 0]
    /\ running' = [running EXCEPT ![s] = FALSE]
    /\ UNCHANGED <<trigger, reply, runStatus, execCount, pc, rosterLocal, failPlan,
                   restarts, resumedFrom, syncVars, poolVars, intakeVars, resolveVars, patchVars, patchVars>>

\* The activity raises: a retry timer is created while the budget allows,
\* otherwise the task fails.
activity_fail(s) ==
    /\ running[s]
    /\ hist[s].attempts <= failPlan[s]
    /\ hist' = [hist EXCEPT ![s].state =
                    IF MayRetry(hist[s].attempts) THEN "timer" ELSE "failed"]
    /\ running' = [running EXCEPT ![s] = FALSE]
    /\ UNCHANGED <<trigger, reply, runStatus, execCount, pc, rosterLocal, failPlan,
                   restarts, resumedFrom, syncVars, poolVars, intakeVars, resolveVars, patchVars, patchVars>>

\* The retry timer fires: the next attempt is scheduled.
retry_timer_fires(s) ==
    /\ hist[s].state = "timer"
    /\ hist' = [hist EXCEPT ![s].state = "scheduled", ![s].attempts = @ + 1]
    /\ UNCHANGED <<trigger, reply, runStatus, running, execCount, pc, rosterLocal,
                   failPlan, restarts, resumedFrom, syncVars, poolVars, intakeVars, resolveVars, patchVars, patchVars>>

\* The process restarts: what is in memory is lost (the generator and its
\* locals, the activity executions in progress); the history is durable. The
\* orchestrator function is replayed from its first line, and an interrupted
\* activity is delivered again.
process_restart ==
    /\ runStatus \in {"Pending", "Running"}
    /\ restarts < MaxRestarts
    /\ restarts' = restarts + 1
    /\ resumedFrom' = Cardinality(CompletedStages)
    /\ pc' = 0
    /\ rosterLocal' = 0
    /\ running' = [s \in Stages |-> FALSE]
    /\ UNCHANGED <<trigger, reply, runStatus, hist, execCount, failPlan, syncVars, poolVars, intakeVars, resolveVars, patchVars, patchVars>>

SyncIdle ==
    /\ backend = "none"
    /\ email_list = 0
    /\ roster = <<>>
    /\ aad_groups = {}
    /\ gaggleRemote = <<>>
    /\ aadUsers = {}
    /\ aadMembers = {}
    /\ email_to_aad_user = <<>>
    /\ email_to_user_id = <<>>
    /\ upserted = {}
    /\ syncpc = "idle"
    /\ current_members = <<>>
    /\ target_members = <<>>
    /\ plan = <<>>
    /\ ops = {}
    /\ calls = {}
    /\ failures = {}

PoolIdle ==
    /\ pool_backend = "none"
    /\ pool = <<>>
    /\ pool_stage = "idle"

\* JSON values, as json.loads gives them: a Python dict, list, str, int or
\* None; "invalid" stands for a text json.loads raises on, "unset" for no
\* value at all.
JsonInvalid == [type |-> "invalid"]
JsonUnset == [type |-> "unset"]
JsonNull == [type |-> "null"]
JsonArray == [type |-> "array"]
JsonString(s) == [type |-> "string", value |-> s]
JsonNumber(s) == [type |-> "number", value |-> s]
JsonObject(f) == [type |-> "object", fields |-> f]

NoRequest == [via |-> "none", doc |-> JsonInvalid, length |-> 0]
NoResponse == [status_code |-> 0, challenge |-> JsonUnset]
NotPulled == [outcome |-> "none", cause |-> "none", board_id |-> JsonUnset,
              roster |-> <<>>]

IntakeIdle ==
    /\ request_body = NoRequest
    /\ client_input = JsonUnset
    /\ http_response = NoResponse
    /\ board_items = <<>>
    /\ pull_result = NotPulled

\* No group has been resolved.
NotResolved == [list |-> 0, members |-> <<>>, target_emails |-> {}]

ResolveIdle ==
    /\ resolve_roster = <<>>
    /\ resolved = NotResolved

\* msgraph_fns.py:32-44
USER_FIELDS ==
    {"id", "mail", "display_name", "mobile_phone", "department", "job_title"}
USER_KEYS == {"id", "mail"}
USER_FIELDS_CAN_PATCH == USER_FIELDS \ USER_KEYS
\* None: an attribute of a User that was not set.
NoValue == "None"
\* User(): every attribute None.
User == [f \in USER_FIELDS |-> NoValue]

PatchIdle ==
    /\ aad_user = User
    /\ roster_user = User
    /\ directory_user = User
    /\ patch_calls = <<>>
    /\ patch_pc = "idle"

InitOrchestration ==
    /\ trigger = "none"
    /\ reply = "none"
    /\ runStatus = "NotStarted"
    /\ hist = [s \in Stages |-> NoHistory]
    /\ running = [s \in Stages |-> FALSE]
    /\ execCount = [s \in Stages |-> 0]
    /\ pc = 0
    /\ rosterLocal = 0
    /\ failPlan \in [Stages -> 0..MaxFailures]
    /\ restarts = 0
    /\ resumedFrom = -1
    /\ SyncIdle
    /\ PoolIdle
    /\ IntakeIdle
    /\ ResolveIdle
    /\ PatchIdle

NextOrchestration ==
    \/ scheduled_sync
    \/ monday_webhook
    \/ handler_return
    \/ orchestrator_schedule
    \/ orchestrator_resume
    \/ orchestrator_raise
    \/ orchestrator_return
    \/ \E s \in Stages : activity_start(s)
    \/ \E s \in Stages : activity_succeed(s)
    \/ \E s \in Stages : activity_fail(s)
    \/ \E s \in Stages : retry_timer_fires(s)
    \/ process_restart

SpecOrchestration == InitOrchestration /\ [][NextOrchestration]_vars

----------------------------------------------------------------------------
(* Claims about the orchestration, checked under SpecOrchestration *)

\* Every stage other than s fails at most once, so that only s can exhaust
\* its budget.
OthersWithinBudget(s) == \A t \in Stages \ {s} : failPlan[t] <= 1

\* C1, as stated: a stage that fails on its first two attempts and would
\* succeed on its third leaves the run in Succeeded with exactly two retries
\* recorded for that stage.
C1_ThirdAttemptSucceeds ==
    \A s \in Stages :
        (Terminal /\ failPlan[s] = 2 /\ OthersWithinBudget(s))
            => (runStatus = "Succeeded" /\ Retries(s) = 2)

\* C1, amended: the retry options allow two attempts per stage. A stage that
\* fails once and then succeeds leaves the run in Succeeded with exactly one
\* retry recorded; a stage that fails on its first two attempts has exhausted
\* its budget: the run ends in Failed after exactly two attempts (one retry)
\* and no third attempt is made.
C1_TwoAttemptsPerStage ==
    \A s \in Stages :
        (Terminal /\ OthersWithinBudget(s)) =>
            /\ failPlan[s] = 1 => (runStatus = "Succeeded" /\ Retries(s) = 1)
            /\ failPlan[s] >= 2 =>
                   /\ runStatus = "Failed"
                   /\ hist[s].state = "failed"
                   /\ hist[s].attempts = 2
                   /\ Retries(s) = 1

\* C1, witness: the second stage failed twice (a third attempt would have
\* succeeded), the other stages never fail, and the run has ended.
C1_Witness ==
    /\ Terminal
    /\ failPlan = [s \in Stages |-> IF s = "push_to_gaggle" THEN 2 ELSE 0]
    /\ hist["push_to_gaggle"].attempts = 2
    /\ hist["push_to_gaggle"].state = "failed"

\* C2: the attempts of a stage never exceed max_number_of_attempts; once a
\* stage has failed on every attempt of its budget, no later stage has been
\* scheduled or executed, the run is never Succeeded, and a run that has ended
\* is Failed.
C2_ExhaustedBudgetFailsRun ==
    /\ \A s \in Stages : hist[s].attempts <= max_number_of_attempts
    /\ \A s \in Stages :
        hist[s].state = "failed" =>
            /\ runStatus # "Succeeded"
            /\ Terminal => runStatus = "Failed"
            /\ \A t \in Stages :
                StageIndex(t) > StageIndex(s) =>
                    (hist[t] = NoHistory /\ execCount[t] = 0 /\ ~running[t])
    /\ runStatus = "Failed" => \E s \in Stages : hist[s].state = "failed"

\* C2, witness: the mailing-list sync failed on both attempts, the run is
\* Failed and the directory sync was never started.
C2_Witness ==
    /\ runStatus = "Failed"
    /\ hist["push_to_gaggle"].state = "failed"
    /\ hist["push_to_gaggle"].attempts = max_number_of_attempts
    /\ hist["push_to_aad"] = NoHistory

\* C3, as stated: when a run has ended in Failed, the handler that started it
\* has reported an error to its caller.
C3_FailedRunReportedAsErrored ==
    (runStatus = "Failed" /\ reply # "none") => reply = "errored"

\* C3, amended: a run that ends in Failed is Failed in its durable status
\* only; the handler that started it replies without waiting for the run and
\* its reply does not depend on the run's outcome: scheduled_sync logs and
\* returns, monday_webhook returns the 202 check-status response.
C3_ReplyIndependentOfRun ==
    reply # "none" =>
        /\ trigger = "timer" => reply = "logged"
        /\ trigger = "webhook" => reply = "accepted"

\* C3, witness: the run started by the webhook is Failed and the webhook's
\* caller got the 202 response.
C3_Witness == runStatus = "Failed" /\ trigger = "webhook" /\ reply = "accepted"

\* A stage is in progress from the scheduling of its first attempt to the
\* recording of its final result.
InProgress(s) == hist[s].state \in {"scheduled", "timer"} \/ running[s]

\* C4: at most one stage of the run is in progress at any time; a stage has
\* been started only if the stage before it (in the order pull_from_monday,
\* push_to_gaggle, push_to_aad) has completed successfully, and it was given
\* the roster that stage returned; the run is Succeeded only when all three
\* stages have completed.
C4_StagesStrictlySequential ==
    /\ Cardinality({s \in Stages : InProgress(s)}) <= 1
    /\ \A i \in 2..Len(StageOrder) :
        (hist[StageOrder[i]] # NoHistory \/ execCount[StageOrder[i]] > 0) =>
            /\ hist[StageOrder[i - 1]].state = "completed"
            /\ hist[StageOrder[i]].input \in Snapshots
    /\ runStatus = "Succeeded" => \A s \in Stages : hist[s].state = "completed"

\* C4, witness: the last stage is in progress, after a retry of the second.
C4_Witness ==
    /\ running["push_to_aad"]
    /\ hist["push_to_gaggle"].attempts = 2
    /\ hist["push_to_gaggle"].state = "completed"

\* C5: whatever the restarts, a stage whose result is recorded as completed
\* is never scheduled or executed again and its record is never changed, and
\* every sync stage that has been scheduled was given the roster recorded as
\* the output of pull_from_monday.
C5_ResumesFromLastCompletedStage ==
    [][/\ \A s \in Stages :
            hist[s].state = "completed" =>
                (hist'[s] = hist[s] /\ execCount'[s] = execCount[s] /\ ~running'[s])
       /\ \A s \in Stages \ {"pull_from_monday"} :
            hist'[s] # NoHistory =>
                /\ hist'["pull_from_monday"].state = "completed"
                /\ hist'[s].input = hist'["pull_from_monday"].output]_vars

\* C5, witness: the process restarted when exactly the roster fetch had
\* completed; the run then succeeded with the roster fetched once.
C5_Witness ==
    /\ resumedFrom = 1
    /\ runStatus = "Succeeded"
    /\ execCount["pull_from_monday"] = 1

----------------------------------------------------------------------------
(* email_lists.py, msgraph_fns.py: the roster, the group definitions *)

\* Roster entries of a snapshot.
MaxRoster == 2
\* How many of the always-included addresses the model takes (the first ones).
MaxAlwaysIncluded == 2

YES == "Yes"
\* Python's None as the mail of a directory user.
NoMail == "None"

Min(S) == CHOOSE x \in S : \A y \in S : x <= y
Max(S) == CHOOSE x \in S : \A y \in S : x >= y

RECURSIVE SetToSeq(_)
\* The elements of a finite set, listed in some order.
SetToSeq(S) ==
    IF S = {} THEN <<>>
    ELSE LET x == CHOOSE y \in S : TRUE IN <<x>> \o SetToSeq(S \ {x})

\* email_lists.py: USERS_IN_EVERY_EMAIL_LIST, in the order of the source.
AlwaysIncludedEmails ==
    << "richard.berg@cantorinewyork.com", "markshapiro212@gmail.com",
       "chelsea.harvey@cantorinewyork.com", "krdinicola@gmail.com",
       "cantoriscores@gmail.com" >>
USERS_IN_EVERY_EMAIL_LIST ==
    {AlwaysIncludedEmails[i] :
        i \in 1..Min({MaxAlwaysIncluded, Len(AlwaysIncludedEmails)})}

\* msgraph_fns.py has its own copy of the set.
msgraph_AlwaysIncludedEmails ==
    << "richard.berg@cantorinewyork.com", "markshapiro212@gmail.com",
       "chelsea.harvey@cantorinewyork.com", "krdinicola@gmail.com",
       "cantoriscores@gmail.com" >>
msgraph_USERS_IN_EVERY_EMAIL_LIST_short ==
    {msgraph_AlwaysIncludedEmails[i] :
        i \in 2..Min({MaxAlwaysIncluded, Len(msgraph_AlwaysIncludedEmails)})}
msgraph_USERS_IN_EVERY_EMAIL_LIST ==
    {msgraph_AlwaysIncludedEmails[i] :
        i \in 1..Min({MaxAlwaysIncluded, Len(msgraph_AlwaysIncludedEmails)})}

\* Text that the code takes apart (voice_part, the section names) is a
\* sequence of one-character strings.
\* str.lower(), on the letters the rosters of the model use.
LowerChar(c) ==
    CASE c = "A" -> "a" [] c = "B" -> "b" [] c = "S" -> "s" [] c = "T" -> "t"
      [] c = "C" -> "c" [] c = "E" -> "e" [] c = "L" -> "l" [] c = "P" -> "p"
      [] c = "V" -> "v"
      [] OTHER -> c
Lower(s) == [i \in 1..Len(s) |-> LowerChar(s[i])]

\* s.split(" ")[0]
FirstToken(s) ==
    LET spaces == {i \in 1..Len(s) : s[i] = " "} IN
    IF spaces = {} THEN s ELSE SubSeq(s, 1, Min(spaces) - 1)

\* inflection.pluralize, by the rules its list reaches first for the words
\* of the model: "" stays "", (x|ch|ss|sh)$ takes "es", s$ stays, else "s".
Pluralize(w) ==
    LET n == Len(w)
        EndsWith(suffix) ==
            /\ n >= Len(suffix)
            /\ SubSeq(w, n - Len(suffix) + 1, n) = suffix
    IN  IF n = 0 THEN w
        ELSE IF \/ EndsWith(<<"x">>) \/ EndsWith(<<"c", "h">>)
                \/ EndsWith(<<"s", "s">>) \/ EndsWith(<<"s", "h">>)
             THEN w \o <<"e", "s">>
        ELSE IF EndsWith(<<"s">>) THEN w
        ELSE w \o <<"s">>

\* The section names, spelled out.
SectionChars(section) ==
    CASE section = "sopranos" -> <<"s", "o", "p", "r", "a", "n", "o", "s">>
      [] section = "altos" -> <<"a", "l", "t", "o", "s">>
      [] section = "tenors" -> <<"t", "e", "n", "o", "r", "s">>
      [] section = "basses" -> <<"b", "a", "s", "s", "e", "s">>

\* email_lists.py: EmailList.from_section, satb_filter
satb_filter_no_plural(section, u) ==
    LET voice_part_satb == FirstToken(Lower(u.voice_part))
    IN  u.chorus_emails = YES /\ SectionChars(section) = voice_part_satb
satb_filter(section, u) ==
    LET voice_part_satb == FirstToken(Lower(u.voice_part))
        voice_part_plural == Pluralize(voice_part_satb)
    IN  u.chorus_emails = YES /\ SectionChars(section) = voice_part_plural

\* email_lists.py: EMAIL_LISTS; filter names the field a lambda compares to
\* YES, or "section" for EmailList.from_section.
EMAIL_LISTS ==
    << [email_prefix |-> "active", filter |-> "chorus_emails"],
       [email_prefix |-> "social", filter |-> "social_emails"],
       [email_prefix |-> "sectionleaders", filter |-> "section_leader"],
       [email_prefix |-> "sopranos", filter |-> "section"],
       [email_prefix |-> "altos", filter |-> "section"],
       [email_prefix |-> "tenors", filter |-> "section"],
       [email_prefix |-> "basses", filter |-> "section"] >>

roster_filter(l, u) ==
    IF l.filter = "section" THEN satb_filter(l.email_prefix, u)
    ELSE u[l.filter] = YES

\* msgraph_fns.py: its own EmailList.from_section, EMAIL_LISTS
msgraph_satb_filter(section, u) ==
    LET voice_part_satb == FirstToken(Lower(u.voice_part))
        voice_part_plural == Pluralize(voice_part_satb)
    IN  u.chorus_emails = YES /\ SectionChars(section) = voice_part_plural

msgraph_EMAIL_LISTS ==
    << [email_prefix |-> "active", filter |-> "chorus_emails"],
       [email_prefix |-> "social", filter |-> "social_emails"],
       [email_prefix |-> "sectionleaders", filter |-> "section_leader"],
       [email_prefix |-> "sopranos", filter |-> "section"],
       [email_prefix |-> "altos", filter |-> "section"],
       [email_prefix |-> "tenors", filter |-> "section"],
       [email_prefix |-> "basses", filter |-> "section"] >>

msgraph_roster_filter(l, u) ==
    IF l.filter = "section" THEN msgraph_satb_filter(l.email_prefix, u)
    ELSE u[l.filter] = YES

\* EmailListMember(email, name)
EmailListMember(email, name) == [email |-> email, name |-> name]
from_monday_user(m) == EmailListMember(m.email, m.name)

\* email_lists.py: EmailList.get_members
get_members_no_placeholder(l, r) ==
    LET Keep(u) == roster_filter(l, u) \/ u.email \in USERS_IN_EVERY_EMAIL_LIST
        kept == SelectSeq(r, Keep)
    IN  [i \in 1..Len(kept) |-> from_monday_user(kept[i])]
get_members(l, r) ==
    LET Keep(u) == roster_filter(l, u) \/ u.email \in USERS_IN_EVERY_EMAIL_LIST
        kept == SelectSeq(r, Keep)
        members == [i \in 1..Len(kept) |-> from_monday_user(kept[i])]
        missing_emails ==
            USERS_IN_EVERY_EMAIL_LIST \ {members[i].email : i \in DOMAIN members}
    IN  members \o SetToSeq({EmailListMember(e, "") : e \in missing_emails})

\* email_lists.py: pivot_by_email, {m.email: m for m in members}: the last
\* member of an address wins.
pivot_by_email(members) ==
    [e \in {members[i].email : i \in DOMAIN members} |->
        members[Max({i \in DOMAIN members : members[i].email = e})]]

Emails(S) == {m.email : m \in S}

\* gaggle_fns.py: sync_one_group, the three lists
members_to_add(current, target) ==
    {target[e] : e \in {x \in DOMAIN target : x \notin DOMAIN current}}

members_to_update(current, target) ==
    {current[e] : e \in {x \in DOMAIN current :
                            /\ x \in DOMAIN target
                            /\ current[x].name # target[x].name}}

members_to_remove_all(current, target) ==
    {current[e] : e \in DOMAIN current}
members_to_remove(current, target) ==
    {current[e] : e \in {x \in DOMAIN current : x \notin DOMAIN target}}

\* msgraph_fns.py: sync_one_group_membership, the sets of addresses
current_emails(members) == {m.mail : m \in members}
roster_emails(l, r) ==
    {r[i].email : i \in {j \in DOMAIN r : msgraph_roster_filter(l, r[j])}}
target_emails_roster_only(l, r) == roster_emails(l, r)
target_emails(l, r) == roster_emails(l, r) \cup msgraph_USERS_IN_EVERY_EMAIL_LIST
emails_to_add(target, current) == target \ current
emails_to_remove(target, current) == current \ target

----------------------------------------------------------------------------
(* The inputs of the reconciliation *)

MondayUser(name, email, voice_part, chorus_emails, social_emails, section_leader) ==
    [name |-> name, email |-> email, voice_part |-> voice_part,
     chorus_emails |-> chorus_emails, social_emails |-> social_emails,
     section_leader |-> section_leader, section_coordinator |-> ""]

\* The people a roster of the model is made of: a soprano who takes every
\* kind of mail, a second entry with the same address under another name (a
\* bass), and an always-included tenor who does not take the chorus mails.
People ==
    { MondayUser("B", "b@x", <<"S", "o", "p", "r", "a", "n", "o", " ", "1">>,
                 YES, YES, YES),
      MondayUser("B2", "b@x", <<"B", "a", "s", "s", " ", "2">>, YES, "", ""),
      MondayUser("Richard", AlwaysIncludedEmails[1],
                 <<"T", "e", "n", "o", "r", " ", "1">>, "", "", "") }

Rosters == UNION {[1..n -> People] : n \in 0..MaxRoster}

\* Gaggle: the names a remote list may hold for an address before the sync.
RemoteNameChoices ==
    [e \in {AlwaysIncludedEmails[1], "b@x", "c@x"} |->
        CASE e = "b@x" -> {"B", "B-old"}
          [] e = "c@x" -> {"C"}
          [] OTHER -> {"", "Richard"}]
GaggleRemotes ==
    UNION {{f \in [D -> UNION {RemoteNameChoices[e] : e \in D}] :
                \A e \in D : f[e] \in RemoteNameChoices[e]} :
           D \in SUBSET DOMAIN RemoteNameChoices}

\* AAD: the users the directory may hold before the sync.
DirectoryUniverse ==
    { [id |-> 1, mail |-> AlwaysIncludedEmails[1]],
      [id |-> 2, mail |-> "b@x"],
      [id |-> 3, mail |-> NoMail],
      [id |-> 4, mail |-> NoMail] }

\* The directories to start from. Users 3 and 4 differ in their id only,
\* so of two directories, or two memberships, that differ by exchanging
\* them, one is taken: the one in which user 3 comes first. The second user
\* without a mail is taken in the directories that hold no roster address.
Directories ==
    {D \in SUBSET DirectoryUniverse :
        [id |-> 4, mail |-> NoMail] \in D =>
            /\ [id |-> 3, mail |-> NoMail] \in D
            /\ [id |-> 2, mail |-> "b@x"] \notin D}
GroupMemberIds(users) ==
    {M \in SUBSET {u.id : u \in users} : 4 \in M => 3 \in M}

\* AAD: the mail prefixes of the groups the lists of the code name.
EmailPrefixes ==
    {msgraph_EMAIL_LISTS[i].email_prefix : i \in DOMAIN msgraph_EMAIL_LISTS}

OrchestrationIdle ==
    /\ trigger = "none"
    /\ reply = "none"
    /\ runStatus = "NotStarted"
    /\ hist = [s \in Stages |-> NoHistory]
    /\ running = [s \in Stages |-> FALSE]
    /\ execCount = [s \in Stages |-> 0]
    /\ pc = 0
    /\ rosterLocal = 0
    /\ failPlan = [s \in Stages |-> 0]
    /\ restarts = 0
    /\ resumedFrom = -1

InitSync ==
    /\ OrchestrationIdle
    /\ PoolIdle
    /\ IntakeIdle
    /\ ResolveIdle
    /\ PatchIdle
    /\ roster \in Rosters
    /\ email_list \in DOMAIN EMAIL_LISTS
    /\ \/ /\ backend = "gaggle"
          /\ aad_groups = {}
          /\ gaggleRemote \in GaggleRemotes
          /\ aadUsers = {}
          /\ aadMembers = {}
          /\ syncpc = "sync"
       \/ /\ backend = "aad"
          /\ aad_groups \in {EmailPrefixes,
                             EmailPrefixes \ {msgraph_EMAIL_LISTS[email_list].email_prefix}}
          /\ gaggleRemote = <<>>
          /\ aadUsers \in Directories
          /\ aadMembers \in GroupMemberIds(aadUsers)
          /\ syncpc = "list_users"
    /\ email_to_aad_user = <<>>
    /\ email_to_user_id = <<>>
    /\ upserted = {}
    /\ current_members = <<>>
    /\ target_members = <<>>
    /\ plan = <<>>
    /\ ops = {}
    /\ calls = {}
    /\ failures = {}

----------------------------------------------------------------------------
(* gaggle_fns.py: the reconciliation of one mailing list *)

\* _get_group_members: the members of the remote list, as the API lists them.
get_group_members_response ==
    SetToSeq({EmailListMember(e, gaggleRemote[e]) : e \in DOMAIN gaggleRemote})

\* sync_one_group, when _get_group_members raises: nothing is spawned.
sync_one_group_fetch_raises ==
    /\ backend = "gaggle"
    /\ syncpc = "sync"
    /\ syncpc' = "fetch_failed"
    /\ calls' = calls \cup {[kind |-> "fetch", members |-> {}, ok |-> FALSE]}
    /\ failures' = failures \cup {[kind |-> "fetch", members |-> {}]}
    /\ UNCHANGED <<orchVars, poolVars, intakeVars, resolveVars, patchVars, syncInputs, gaggleRemote, aadUsers,
                   aadMembers, email_to_aad_user, email_to_user_id, upserted,
                   current_members, target_members, plan, ops>>

\* sync_one_group, its spawn_n calls: one task of _add_group_members with
\* the whole list, one of _update_group_member per member to update, one of
\* _remove_group_member per member to remove.
spawned_tasks_add_each(to_add, to_update, to_remove) ==
    {[kind |-> "add", members |-> {m}] : m \in to_add}
    \cup {[kind |-> "update", members |-> {m}] : m \in to_update}
    \cup {[kind |-> "remove", members |-> {m}] : m \in to_remove}
spawned_tasks(to_add, to_update, to_remove) ==
    {[kind |-> "add", members |-> to_add]}
    \cup {[kind |-> "update", members |-> {m}] : m \in to_update}
    \cup {[kind |-> "remove", members |-> {m}] : m \in to_remove}

\* sync_one_group: the fetch, the three lists, and the operations spawned
\* into the pool (there is no await after the fetch).
sync_one_group ==
    /\ backend = "gaggle"
    /\ syncpc = "sync"
    /\ LET current == pivot_by_email(get_group_members_response)
           target == pivot_by_email(get_members(EMAIL_LISTS[email_list], roster))
           to_add == members_to_add(current, target)
           to_update == members_to_update(current, target)
           to_remove == members_to_remove(current, target)
       IN  /\ current_members' = current
           /\ target_members' = target
           /\ plan' = [toAdd |-> to_add, toUpdate |-> to_update,
                       toRemove |-> to_remove]
           /\ ops' = spawned_tasks(to_add, to_update, to_remove)
    /\ calls' = calls \cup {[kind |-> "fetch", members |-> {}, ok |-> TRUE]}
    /\ syncpc' = "dispatched"
    /\ UNCHANGED <<orchVars, poolVars, intakeVars, resolveVars, patchVars, syncInputs, gaggleRemote, aadUsers,
                   aadMembers, email_to_aad_user, email_to_user_id, upserted,
                   failures>>

\* The remote list after a PUT of members / a POST of one member / a DELETE.
GaggleAfterPut(remote, members) ==
    [e \in DOMAIN remote \cup Emails(members) |->
        IF e \in Emails(members)
        THEN (CHOOSE m \in members : m.email = e).name
        ELSE remote[e]]
GaggleAfterPost(remote, member) ==
    [e \in DOMAIN remote |-> IF e = member.email THEN member.name ELSE remote[e]]
GaggleAfterDelete(remote, member) ==
    [e \in DOMAIN remote \ {member.email} |-> remote[e]]

\* _add_group_members: returns at once for an empty list, else one PUT.
add_group_members ==
    \E op \in ops : \E ok \in BOOLEAN :
        /\ backend = "gaggle"
        /\ op.kind = "add"
        /\ ops' = ops \ {op}
        /\ IF op.members = {}
           THEN /\ ok
                /\ UNCHANGED <<gaggleRemote, calls, failures>>
           ELSE /\ calls' = calls \cup {[kind |-> "add", members |-> op.members,
                                         ok |-> ok]}
                /\ gaggleRemote' = IF ok THEN GaggleAfterPut(gaggleRemote, op.members)
                                   ELSE gaggleRemote
                /\ failures' = IF ok THEN failures ELSE failures \cup {op}
        /\ UNCHANGED <<orchVars, poolVars, intakeVars, resolveVars, patchVars, syncInputs, aadUsers, aadMembers,
                       email_to_aad_user, email_to_user_id, upserted, syncpc,
                       current_members, target_members, plan>>

\* _update_group_member: one POST of the member it was given.
update_group_member ==
    \E op \in ops : \E ok \in BOOLEAN :
        /\ backend = "gaggle"
        /\ op.kind = "update"
        /\ ops' = ops \ {op}
        /\ calls' = calls \cup {[kind |-> "update", members |-> op.members, ok |-> ok]}
        /\ gaggleRemote' =
                IF ok THEN GaggleAfterPost(gaggleRemote, CHOOSE m \in op.members : TRUE)
                ELSE gaggleRemote
        /\ failures' = IF ok THEN failures ELSE failures \cup {op}
        /\ UNCHANGED <<orchVars, poolVars, intakeVars, resolveVars, patchVars, syncInputs, aadUsers, aadMembers,
                       email_to_aad_user, email_to_user_id, upserted, syncpc,
                       current_members, target_members, plan>>

\* _remove_group_member: one DELETE.
remove_group_member_gaggle ==
    \E op \in ops : \E ok \in BOOLEAN :
        /\ backend = "gaggle"
        /\ op.kind = "remove"
        /\ ops' = ops \ {op}
        /\ calls' = calls \cup {[kind |-> "remove", members |-> op.members, ok |-> ok]}
        /\ gaggleRemote' =
                IF ok THEN GaggleAfterDelete(gaggleRemote, CHOOSE m \in op.members : TRUE)
                ELSE gaggleRemote
        /\ failures' = IF ok THEN failures ELSE failures \cup {op}
        /\ UNCHANGED <<orchVars, poolVars, intakeVars, resolveVars, patchVars, syncInputs, aadUsers, aadMembers,
                       email_to_aad_user, email_to_user_id, upserted, syncpc,
                       current_members, target_members, plan>>

----------------------------------------------------------------------------
(* msgraph_fns.py: upsert_aad_users, then the reconciliation of one group *)

\* {u.mail: u.id for u in aad_users}: of two users with one mail, the one
\* listed last wins, and the order of the listing is the directory's.
AadUserDicts(users) ==
    {f \in [{u.mail : u \in users} -> {u.id : u \in users}] :
        \A m \in DOMAIN f : [id |-> f[m], mail |-> m] \in users}

\* The id the directory gives the guest an invitation creates.
NewUserId == Max({u.id : u \in aadUsers \cup DirectoryUniverse}) + 1

\* upsert_aad_users, when _get_aad_users finds no user: RuntimeError.
upsert_aad_users_list_raises ==
    /\ backend = "aad"
    /\ syncpc = "list_users"
    /\ aadUsers = {}
    /\ syncpc' = "stage_failed"
    /\ failures' = failures \cup {[kind |-> "list_users", email |-> NoMail]}
    /\ UNCHANGED <<orchVars, poolVars, intakeVars, resolveVars, patchVars, syncInputs, gaggleRemote, aadUsers,
                   aadMembers, email_to_aad_user, email_to_user_id, upserted,
                   current_members, target_members, plan, ops, calls>>

\* upsert_aad_users, up to _run_concurrently: the two dicts by mail.
upsert_aad_users_list ==
    /\ backend = "aad"
    /\ syncpc = "list_users"
    /\ aadUsers # {}
    /\ \E d \in AadUserDicts(aadUsers) :
        /\ email_to_aad_user' = d
        /\ email_to_user_id' = d
    /\ syncpc' = "upserting"
    /\ UNCHANGED <<orchVars, poolVars, intakeVars, resolveVars, patchVars, syncInputs, gaggleRemote, aadUsers,
                   aadMembers, upserted, current_members, target_members, plan,
                   ops, calls, failures>>

\* upsert_aad_user for one roster entry: skipped without a mail; a guest is
\* invited when the mail was not listed, and its id recorded; then the
\* user's properties and extensions are patched (they are no part of the
\* directory state above: id and mail are never patched). The invitation or
\* a patch may raise.
upsert_aad_user(i) ==
    /\ backend = "aad"
    /\ syncpc = "upserting"
    /\ i \in DOMAIN roster \ upserted
    /\ upserted' = upserted \cup {i}
    /\ LET mail == roster[i].email
           listed == mail \in DOMAIN email_to_aad_user
       IN
        IF mail = ""
        THEN UNCHANGED <<aadUsers, email_to_user_id, calls, failures>>
        ELSE \E outcome \in {"ok", "invite_raises", "update_raises"} :
            /\ listed => outcome # "invite_raises"
            /\ IF listed
               THEN UNCHANGED <<aadUsers, email_to_user_id, calls>>
               ELSE /\ calls' = calls \cup {[kind |-> "invite", email |-> mail,
                                             user_id |-> NewUserId,
                                             ok |-> outcome # "invite_raises"]}
                    /\ aadUsers' =
                            IF outcome = "invite_raises" THEN aadUsers
                            ELSE aadUsers \cup {[id |-> NewUserId, mail |-> mail]}
                    /\ email_to_user_id' =
                            IF outcome = "invite_raises" THEN email_to_user_id
                            ELSE [m \in DOMAIN email_to_user_id \cup {mail} |->
                                    IF m = mail THEN NewUserId
                                    ELSE email_to_user_id[m]]
            /\ failures' = IF outcome = "ok" THEN failures
                           ELSE failures \cup {[kind |-> outcome, email |-> mail]}
    /\ UNCHANGED <<orchVars, poolVars, intakeVars, resolveVars, patchVars, syncInputs, gaggleRemote, aadMembers,
                   email_to_aad_user, syncpc, current_members, target_members,
                   plan, ops>>

\* _run_concurrently: once every upsert has run, the first exception among
\* the results is raised, and push_to_aad with it.
run_concurrently_raises ==
    /\ backend = "aad"
    /\ syncpc = "upserting"
    /\ upserted = DOMAIN roster
    /\ failures # {}
    /\ syncpc' = "stage_failed"
    /\ UNCHANGED <<orchVars, poolVars, intakeVars, resolveVars, patchVars, syncInputs, gaggleRemote, aadUsers,
                   aadMembers, email_to_aad_user, email_to_user_id, upserted,
                   current_members, target_members, plan, ops, calls, failures>>

\* upsert_aad_users returns email_to_aad_directory_id; push_to_aad passes it
\* to sync_all_group_membership (it is never empty, so it is not rebuilt).
upsert_aad_users_return ==
    /\ backend = "aad"
    /\ syncpc = "upserting"
    /\ upserted = DOMAIN roster
    /\ failures = {}
    /\ syncpc' = "sync"
    /\ UNCHANGED <<orchVars, poolVars, intakeVars, resolveVars, patchVars, syncInputs, gaggleRemote, aadUsers,
                   aadMembers, email_to_aad_user, email_to_user_id, upserted,
                   current_members, target_members, plan, ops, calls, failures>>

\* _get_aad_group_members: the users that are members of the group.
get_aad_group_members_response == {u \in aadUsers : u.id \in aadMembers}

\* sync_one_group_membership, when the directory has no group for the
\* list: email_prefix_to_aad_group[...] is a KeyError, nothing is fetched.
sync_one_group_membership_no_group ==
    /\ backend = "aad"
    /\ syncpc = "sync"
    /\ msgraph_EMAIL_LISTS[email_list].email_prefix \notin aad_groups
    /\ syncpc' = "fetch_failed"
    /\ failures' = failures \cup {[kind |-> "group_lookup", email |-> NoMail]}
    /\ UNCHANGED <<orchVars, poolVars, intakeVars, resolveVars, patchVars, syncInputs, gaggleRemote, aadUsers,
                   aadMembers, email_to_aad_user, email_to_user_id, upserted,
                   current_members, target_members, plan, ops, calls>>

\* sync_one_group_membership, when _get_aad_group_members raises.
sync_one_group_membership_fetch_raises ==
    /\ backend = "aad"
    /\ syncpc = "sync"
    /\ msgraph_EMAIL_LISTS[email_list].email_prefix \in aad_groups
    /\ syncpc' = "fetch_failed"
    /\ calls' = calls \cup {[kind |-> "fetch", email |-> NoMail, user_id |-> 0,
                             ok |-> FALSE, members |-> {}]}
    /\ failures' = failures \cup {[kind |-> "fetch", email |-> NoMail]}
    /\ UNCHANGED <<orchVars, poolVars, intakeVars, resolveVars, patchVars, syncInputs, gaggleRemote, aadUsers,
                   aadMembers, email_to_aad_user, email_to_user_id, upserted,
                   current_members, target_members, plan, ops>>

\* sync_one_group_membership: the fetch, the sets of addresses, and the
\* operations spawned into the pool (there is no await after the fetch).
sync_one_group_membership ==
    /\ backend = "aad"
    /\ syncpc = "sync"
    /\ msgraph_EMAIL_LISTS[email_list].email_prefix \in aad_groups
    /\ LET current == current_emails(get_aad_group_members_response)
           target == target_emails(msgraph_EMAIL_LISTS[email_list], roster)
           to_add == emails_to_add(target, current)
           to_remove == emails_to_remove(target, current)
       IN  /\ current_members' = current
           /\ target_members' = target
           /\ plan' = [toAdd |-> {[email |-> e] : e \in to_add},
                       toUpdate |-> {},
                       toRemove |-> {[email |-> e] : e \in to_remove}]
           /\ ops' = {[kind |-> "add", email |-> e] : e \in to_add}
                     \cup {[kind |-> "remove", email |-> e] : e \in to_remove}
    /\ calls' = calls \cup {[kind |-> "fetch", email |-> NoMail, user_id |-> 0,
                             ok |-> TRUE,
                             members |-> {u.id : u \in get_aad_group_members_response}]}
    /\ syncpc' = "dispatched"
    /\ UNCHANGED <<orchVars, poolVars, intakeVars, resolveVars, patchVars, syncInputs, gaggleRemote, aadUsers,
                   aadMembers, email_to_aad_user, email_to_user_id, upserted,
                   failures>>

\* add_group_member: warns and returns when the address has no directory
\* id, else one POST of the reference.
add_group_member ==
    \E op \in ops : \E ok \in BOOLEAN :
        /\ backend = "aad"
        /\ op.kind = "add"
        /\ ops' = ops \ {op}
        /\ IF op.email \notin DOMAIN email_to_user_id
           THEN /\ ok
                /\ UNCHANGED <<aadMembers, calls, failures>>
           ELSE LET user_id == email_to_user_id[op.email] IN
                /\ calls' = calls \cup {[kind |-> "add", email |-> op.email,
                                         user_id |-> user_id, ok |-> ok]}
                /\ aadMembers' = IF ok THEN aadMembers \cup {user_id} ELSE aadMembers
                /\ failures' = IF ok THEN failures ELSE failures \cup {op}
        /\ UNCHANGED <<orchVars, poolVars, intakeVars, resolveVars, patchVars, syncInputs, gaggleRemote, aadUsers,
                       email_to_aad_user, email_to_user_id, upserted, syncpc,
                       current_members, target_members, plan>>

\* remove_group_member: email_to_user_id[email] (a KeyError without an id),
\* then one DELETE of that id's reference.
remove_group_member ==
    \E op \in ops : \E ok \in BOOLEAN :
        /\ backend = "aad"
        /\ op.kind = "remove"
        /\ ops' = ops \ {op}
        /\ IF op.email \notin DOMAIN email_to_user_id
           THEN /\ ~ok
                /\ failures' = failures \cup {op}
                /\ UNCHANGED <<aadMembers, calls>>
           ELSE LET user_id == email_to_user_id[op.email] IN
                /\ calls' = calls \cup {[kind |-> "remove", email |-> op.email,
                                         user_id |-> user_id, ok |-> ok]}
                /\ aadMembers' = IF ok THEN aadMembers \ {user_id} ELSE aadMembers
                /\ failures' = IF ok THEN failures ELSE failures \cup {op}
        /\ UNCHANGED <<orchVars, poolVars, intakeVars, resolveVars, patchVars, syncInputs, gaggleRemote, aadUsers,
                       email_to_aad_user, email_to_user_id, upserted, syncpc,
                       current_members, target_members, plan>>

NextSync ==
    \/ sync_one_group_fetch_raises
    \/ sync_one_group
    \/ add_group_members
    \/ update_group_member
    \/ remove_group_member_gaggle
    \/ upsert_aad_users_list_raises
    \/ upsert_aad_users_list
    \/ \E i \in 1..MaxRoster : upsert_aad_user(i)
    \/ run_concurrently_raises
    \/ upsert_aad_users_return
    \/ sync_one_group_membership_no_group
    \/ sync_one_group_membership_fetch_raises
    \/ sync_one_group_membership
    \/ add_group_member
    \/ remove_group_member

SpecSync == InitSync /\ [][NextSync]_vars

----------------------------------------------------------------------------
(* Claims about the reconciliation, checked under SpecSync *)

\* The plan of the group has been computed, and every operation spawned for
\* it has run.
Planned == syncpc = "dispatched"
Applied == Planned /\ ops = {}
AllCallsSucceeded == failures = {} /\ \A c \in calls : c.ok
RosterEmails == {roster[i].email : i \in DOMAIN roster}
NoPlan == [toAdd |-> {}, toUpdate |-> {}, toRemove |-> {}]

\* The plan the reconciler computes when it fetches the members again and
\* diffs them against the same desired members.
Rediff ==
    IF backend = "gaggle"
    THEN LET current == pivot_by_email(get_group_members_response)
             target == pivot_by_email(get_members(EMAIL_LISTS[email_list], roster))
         IN  [toAdd |-> members_to_add(current, target),
              toUpdate |-> members_to_update(current, target),
              toRemove |-> members_to_remove(current, target)]
    ELSE LET current == current_emails(get_aad_group_members_response)
             target == target_emails(msgraph_EMAIL_LISTS[email_list], roster)
         IN  [toAdd |-> emails_to_add(target, current),
              toUpdate |-> {},
              toRemove |-> emails_to_remove(target, current)]

\* C6: once the plan of a group has been applied with every remote call
\* succeeding, fetching the members again and diffing them against the same
\* desired members gives empty toAdd, toUpdate and toRemove.
C6_ReconciliationIdempotent ==
    (Applied /\ AllCallsSucceeded) => Rediff = NoPlan

\* C7: (Gaggle) every address in both the desired and the current members
\* whose names differ has a record in toUpdate that carries the desired
\* name, the update call sends the desired name, and an address whose names
\* are equal has no record in toUpdate.
C7_UpdateCarriesDesiredAttributes ==
    (backend = "gaggle" /\ Planned) =>
        /\ \A e \in DOMAIN current_members \cap DOMAIN target_members :
            IF current_members[e].name # target_members[e].name
            THEN \E m \in plan.toUpdate :
                    m.email = e /\ m.name = target_members[e].name
            ELSE e \notin Emails(plan.toUpdate)
        /\ \A c \in calls :
            c.kind = "update" =>
                \A m \in c.members : m.name = target_members[m.email].name

\* The identities of the desired and of the current members of the plan.
DesiredIdentities ==
    IF backend = "gaggle" THEN DOMAIN target_members ELSE target_members
CurrentIdentities ==
    IF backend = "gaggle" THEN DOMAIN current_members ELSE current_members

\* C8: the plan partitions by identity: toAdd is exactly the desired
\* identities absent from current, toRemove exactly the current identities
\* absent from desired, toUpdate holds identities that are in both, each
\* list holds an identity at most once, and no identity is in two lists.
C8_PlanPartitionsByIdentity ==
    Planned =>
        /\ Emails(plan.toAdd) = DesiredIdentities \ CurrentIdentities
        /\ Emails(plan.toRemove) = CurrentIdentities \ DesiredIdentities
        /\ Emails(plan.toUpdate) \subseteq DesiredIdentities \cap CurrentIdentities
        /\ Emails(plan.toAdd) \cap Emails(plan.toUpdate) = {}
        /\ Emails(plan.toAdd) \cap Emails(plan.toRemove) = {}
        /\ Emails(plan.toUpdate) \cap Emails(plan.toRemove) = {}
        /\ \A list \in {plan.toAdd, plan.toUpdate, plan.toRemove} :
            Cardinality(list) = Cardinality(Emails(list))

\* C8, witness: a Gaggle plan with an addition, an update, a removal and an
\* identity left alone, for a roster that lists one address twice.
C8_Witness ==
    /\ backend = "gaggle"
    /\ Planned
    /\ plan.toAdd # {}
    /\ plan.toUpdate # {}
    /\ plan.toRemove # {}
    /\ (DesiredIdentities \cap CurrentIdentities) \ Emails(plan.toUpdate) # {}
    /\ Len(roster) = 2
    /\ roster[1].email = roster[2].email

\* C9: for any roster, the desired members of every group hold every
\* always-included address, in both backends; in the desired members
\* get_members resolves, an always-included address missing from the roster
\* is a member with an empty name.
C9_AlwaysIncludedResolved ==
    Planned =>
        /\ backend = "gaggle" =>
            /\ USERS_IN_EVERY_EMAIL_LIST \subseteq DOMAIN target_members
            /\ \A e \in USERS_IN_EVERY_EMAIL_LIST \ RosterEmails :
                target_members[e] = EmailListMember(e, "")
        /\ backend = "aad" =>
            msgraph_USERS_IN_EVERY_EMAIL_LIST \subseteq target_members

\* C9, witness: the desired members of a Gaggle list for the empty roster.
C9_Witness ==
    /\ backend = "gaggle"
    /\ Planned
    /\ roster = <<>>
    /\ DOMAIN target_members = USERS_IN_EVERY_EMAIL_LIST

\* C10: no removal is spawned or issued for an always-included address, and
\* the directory user an AAD removal targets does not have such an address.
C10_AlwaysIncludedNeverRemoved ==
    /\ backend = "gaggle" =>
        /\ \A op \in ops :
            op.kind = "remove" => Emails(op.members) \cap USERS_IN_EVERY_EMAIL_LIST = {}
        /\ \A c \in calls :
            c.kind = "remove" => Emails(c.members) \cap USERS_IN_EVERY_EMAIL_LIST = {}
    /\ backend = "aad" =>
        /\ \A op \in ops :
            op.kind = "remove" => op.email \notin msgraph_USERS_IN_EVERY_EMAIL_LIST
        /\ \A c \in calls :
            c.kind = "remove" =>
                /\ c.email \notin msgraph_USERS_IN_EVERY_EMAIL_LIST
                /\ \A u \in aadUsers :
                    u.id = c.user_id => u.mail \notin msgraph_USERS_IN_EVERY_EMAIL_LIST

\* C10, witness: an AAD group of which an always-included user, absent from
\* the roster, is a member; a removal was issued for another member and every
\* operation has run.
C10_Witness ==
    /\ backend = "aad"
    /\ Applied
    /\ AlwaysIncludedEmails[1] \in current_members
    /\ AlwaysIncludedEmails[1] \notin RosterEmails
    /\ 1 \in aadMembers
    /\ \E c \in calls : c.kind = "remove" /\ c.ok

\* The identities of the members the remote group has.
RemoteIdentities ==
    IF backend = "gaggle" THEN DOMAIN gaggleRemote
    ELSE {u.mail : u \in get_aad_group_members_response}

\* C15: once the plan of a group has been applied with every remote call
\* succeeding, the identities of the remote group's members are the desired
\* identities, in both backends.
C15_RemoteEqualsDesired ==
    (Applied /\ AllCallsSucceeded) => RemoteIdentities = DesiredIdentities

\* The remote calls of one kind issued so far.
CallsOfKind(kind) == {c \in calls : c.kind = kind}

\* Gaggle: at most one add call, carrying the whole of toAdd, and none when
\* toAdd is empty; every update and every removal call carries one member
\* of its list, and once every operation has run each member has its call.
GaggleAddIsOneBatch ==
    (backend = "gaggle" /\ Planned) =>
        /\ Cardinality(CallsOfKind("add")) <= 1
        /\ \A c \in CallsOfKind("add") : c.members = plan.toAdd
        /\ plan.toAdd = {} => CallsOfKind("add") = {}
        /\ (Applied /\ plan.toAdd # {}) => Cardinality(CallsOfKind("add")) = 1
        /\ \A c \in CallsOfKind("update") :
            Cardinality(c.members) = 1 /\ c.members \subseteq plan.toUpdate
        /\ \A c \in CallsOfKind("remove") :
            Cardinality(c.members) = 1 /\ c.members \subseteq plan.toRemove
        /\ Applied =>
            /\ UNION {c.members : c \in CallsOfKind("update")} = plan.toUpdate
            /\ UNION {c.members : c \in CallsOfKind("remove")} = plan.toRemove

\* C21, as stated: in each backend at most one add call is issued for the
\* group, it carries all of toAdd, and none is issued when toAdd is empty;
\* updates and removals are one call per member.
C21_OneBatchedAddPerGroup ==
    /\ GaggleAddIsOneBatch
    /\ (backend = "aad" /\ Planned) =>
        /\ Cardinality(CallsOfKind("add")) <= 1
        /\ \A c \in CallsOfKind("add") : {[email |-> c.email]} = plan.toAdd
        /\ plan.toAdd = {} => CallsOfKind("add") = {}
        /\ \A c \in CallsOfKind("remove") : [email |-> c.email] \in plan.toRemove

\* C21, amended: so it is in the mailing-list backend; the directory backend
\* issues its additions like its removals, one call per address: one for
\* each address of toAdd that has a directory id, none for the others, and
\* none when toAdd is empty.
C21_OneBatchedAddPerGaggleGroup ==
    /\ GaggleAddIsOneBatch
    /\ (backend = "aad" /\ Planned) =>
        /\ \A c \in CallsOfKind("add") :
            /\ [email |-> c.email] \in plan.toAdd
            /\ c.email \in DOMAIN email_to_user_id
            /\ c.user_id = email_to_user_id[c.email]
        /\ plan.toAdd = {} => CallsOfKind("add") = {}
        /\ \A c \in CallsOfKind("remove") : [email |-> c.email] \in plan.toRemove
        /\ Applied =>
            {c.email : c \in CallsOfKind("add")}
                = Emails(plan.toAdd) \cap DOMAIN email_to_user_id

\* C21, witness: a Gaggle list whose every operation has run: one add call
\* with two members, an update call and a removal call.
C21_Witness ==
    /\ backend = "gaggle"
    /\ Applied
    /\ \E c \in CallsOfKind("add") : Cardinality(c.members) = 2
    /\ CallsOfKind("update") # {}
    /\ CallsOfKind("remove") # {}

\* No invitation is issued for an address the listing of the directory
\* held, nor for a roster entry without an address.
InvitedOnlyWhenAbsent ==
    \A c \in CallsOfKind("invite") :
        /\ c.email # ""
        /\ c.email \notin DOMAIN email_to_aad_user
        /\ \E i \in DOMAIN roster : roster[i].email = c.email

\* C23: in one execution of upsert_aad_users at most one invitation is
\* issued per address, also when two roster entries share an address the
\* directory does not have; none is issued for an address of the directory
\* or for an entry without an address.
C23_OneInvitationPerEmail ==
    /\ InvitedOnlyWhenAbsent
    /\ \A c1, c2 \in CallsOfKind("invite") : c1.email = c2.email => c1 = c2

\* AAD: the ids of the users the fetch of the group's members reported.
FetchedMemberIds == UNION {c.members : c \in CallsOfKind("fetch")}

\* C24: every remove call of the directory reconciler carries the id of a
\* user the fetch reported as a member of the group, and the address it
\* stands for is not in the desired set; also with users without a mail and
\* with two users of one mail.
C24_RemoveTargetsFetchedMember ==
    (backend = "aad" /\ Planned) =>
        \A c \in CallsOfKind("remove") :
            /\ c.user_id \in FetchedMemberIds
            /\ c.email \notin target_members

----------------------------------------------------------------------------
(* email_lists.py, msgraph_fns.py: the desired members of a group, resolved *)
(* for one roster by both backends *)

\* The people of these rosters: those of People, an alto who does not take
\* the chorus mails, and a singer without a voice part who does.
WidePeople ==
    People \cup
    { MondayUser("D", "d@x", <<"A", "l", "t", "o", " ", "2">>, "", YES, ""),
      MondayUser("E", "e@x", <<>>, YES, "", "") }
WideRosters == UNION {[1..n -> WidePeople] : n \in 0..MaxRoster}

\* email_list.get_members(roster) as sync_one_group calls it, and
\* target_emails as sync_one_group_membership computes it, for one list.
resolve_members(l) ==
    /\ resolved' =
        [list |-> l,
         members |-> get_members(EMAIL_LISTS[l], resolve_roster),
         target_emails |-> target_emails(msgraph_EMAIL_LISTS[l], resolve_roster)]
    /\ UNCHANGED <<orchVars, syncVars, poolVars, intakeVars, patchVars, resolve_roster>>

InitResolve ==
    /\ OrchestrationIdle
    /\ SyncIdle
    /\ PoolIdle
    /\ IntakeIdle
    /\ PatchIdle
    /\ resolve_roster \in WideRosters
    /\ resolved = NotResolved

NextResolve == \E l \in DOMAIN EMAIL_LISTS : resolve_members(l)

SpecResolve == InitResolve /\ [][NextResolve]_vars

----------------------------------------------------------------------------
(* Claims about the desired members, checked under SpecResolve *)

SectionLists == {l \in DOMAIN EMAIL_LISTS : EMAIL_LISTS[l].filter = "section"}
ResolvedMembers == {resolved.members[i] : i \in DOMAIN resolved.members}
\* The pluralized, lower-cased first token of the voice part is the name of
\* the resolved group.
VoicePartNamesGroup(u) ==
    Pluralize(FirstToken(Lower(u.voice_part)))
        = SectionChars(EMAIL_LISTS[resolved.list].email_prefix)

\* C19, as stated: for every person of the roster and every section group,
\* a person whose chorus_emails flag is not "Yes" is not among the resolved
\* members, and a person whose flag is "Yes" is among them exactly when the
\* pluralized, lower-cased first token of the voice part is the group name.
C19_SectionPredicate ==
    (resolved.list # 0 /\ resolved.list \in SectionLists) =>
        \A i \in DOMAIN resolve_roster :
            LET u == resolve_roster[i] IN
            from_monday_user(u) \in ResolvedMembers
                <=> (u.chorus_emails = YES /\ VoicePartNamesGroup(u))

\* C19, amended: the same for every person whose address is not always
\* included, in get_members and in the roster filter of msgraph_fns.py; a
\* person with an always-included address is a resolved member of every
\* section group, whatever the flag and the voice part.
C19_SectionPredicateButAlwaysIncluded ==
    (resolved.list # 0 /\ resolved.list \in SectionLists) =>
        \A i \in DOMAIN resolve_roster :
            LET u == resolve_roster[i] IN
            IF u.email \in USERS_IN_EVERY_EMAIL_LIST
            THEN from_monday_user(u) \in ResolvedMembers
            ELSE /\ from_monday_user(u) \in ResolvedMembers
                        <=> (u.chorus_emails = YES /\ VoicePartNamesGroup(u))
                 /\ msgraph_roster_filter(msgraph_EMAIL_LISTS[resolved.list], u)
                        <=> (u.chorus_emails = YES /\ VoicePartNamesGroup(u))

\* C19, witness: "basses" resolved for a roster of the "Bass 2" who takes
\* the chorus mails and the "Alto 2" who does not: the bass is a member, the
\* alto is not.
C19_Witness ==
    /\ resolved.list # 0
    /\ EMAIL_LISTS[resolved.list].email_prefix = "basses"
    /\ Len(resolve_roster) = 2
    /\ resolve_roster[1].name = "B2"
    /\ resolve_roster[2].name = "D"
    /\ EmailListMember("b@x", "B2") \in ResolvedMembers
    /\ "d@x" \notin Emails(ResolvedMembers)

\* C20: for every roster and every group, the desired identities the
\* directory backend computes are those the mailing-list backend computes.
C20_BackendsAgreeOnDesired ==
    resolved.list # 0 => Emails(ResolvedMembers) = resolved.target_emails

\* C20, witness: a group resolved for a roster of two people of whom the
\* group's filter takes one, next to the always-included addresses.
C20_Witness ==
    /\ resolved.list # 0
    /\ Len(resolve_roster) = 2
    /\ "b@x" \in resolved.target_emails
    /\ "d@x" \notin resolved.target_emails
    /\ "d@x" \in {resolve_roster[i].email : i \in DOMAIN resolve_roster}
    /\ USERS_IN_EVERY_EMAIL_LIST \subseteq resolved.target_emails
    /\ Cardinality(resolved.target_emails) > Cardinality(USERS_IN_EVERY_EMAIL_LIST)

----------------------------------------------------------------------------
(* gaggle_fns.py, msgraph_fns.py: sync_all_group_membership and its pool *)

\* gaggle_fns.py:16, msgraph_fns.py:49
MAX_CONCURRENCY == 10
\* The model runs the pool with at most this many slots,
MaxPoolSize == 2
\* takes this many of the lists of EMAIL_LISTS (the first ones),
MaxGroups == 2
\* and lets one group spawn at most this many operation tasks.
MaxOps == 2

\* AioPool(size=MAX_CONCURRENCY), within the bound of the model.
PoolSize == Min({MAX_CONCURRENCY, MaxPoolSize})
\* for email_list in EMAIL_LISTS, within the bound of the model.
PoolGroups == 1..Min({MaxGroups, Len(EMAIL_LISTS)})

RECURSIVE SumOver(_, _)
SumOver(S, f) ==
    IF S = {} THEN 0
    ELSE LET x == CHOOSE y \in S : TRUE IN f[x] + SumOver(S \ {x}, f)

\* A group's entry in the pool: task is the state of sync_one_group /
\* sync_one_group_membership for the group ("waiting": spawned, no slot
\* yet; "fetching": holds a slot, the fetch is outstanding; "returned";
\* "raised"), cause is what made it raise, spawned counts the operation
\* tasks it spawned, and waiting / active / done / failed count those tasks
\* by their state (active: holds a slot, its remote call is outstanding).
NoTask == [task |-> "none", cause |-> "none", spawned |-> 0, waiting |-> 0,
           active |-> 0, done |-> 0, failed |-> 0]

\* AioPool: tasks that hold a slot of the semaphore / that wait for one.
ActiveTasks(p) ==
    Cardinality({g \in DOMAIN p : p[g].task = "fetching"})
    + SumOver(DOMAIN p, [g \in DOMAIN p |-> p[g].active])
WaitingTasks(p) ==
    Cardinality({g \in DOMAIN p : p[g].task = "waiting"})
    + SumOver(DOMAIN p, [g \in DOMAIN p |-> p[g].waiting])

\* asyncio.Semaphore(value=size).locked(), as _spawn's acquire sees it.
semaphore_locked_never(p) == FALSE
semaphore_locked_no_release(p) ==
    ActiveTasks(p)
    + Cardinality({g \in DOMAIN p : p[g].task \in {"returned", "raised"}})
    + SumOver(DOMAIN p, [g \in DOMAIN p |-> p[g].done + p[g].failed])
        >= PoolSize
semaphore_locked(p) == ActiveTasks(p) >= PoolSize

\* AioPool.is_empty: nothing waits and nothing is active; join() returns,
\* and with it "async with AioPool(...)", only then.
is_empty_active_only(p) == ActiveTasks(p) = 0
is_empty(p) == WaitingTasks(p) = 0 /\ ActiveTasks(p) = 0

\* How many operation tasks a group task spawns: the spawn_n calls come
\* after "await _get_group_members(...)", so none when the fetch raised.
spawned_operations_regardless(fetched, n) == n
spawned_operations(fetched, n) == IF fetched THEN n ELSE 0

\* The operation tasks sync_one_group may spawn: the task of
\* _add_group_members always, then one per update and per removal; those of
\* sync_one_group_membership: one per addition and per removal.
PlanSizes(b) == IF b = "gaggle" THEN 1..MaxOps ELSE 0..MaxOps

\* async with AioPool(size=MAX_CONCURRENCY) as pool: for email_list in
\* EMAIL_LISTS: pool.spawn_n(sync_one_group(email_list, pool)); then __aexit__
\* awaits join().
spawn_group_tasks ==
    /\ pool_stage = "start"
    /\ pool' = [g \in PoolGroups |-> [NoTask EXCEPT !.task = "waiting"]]
    /\ pool_stage' = "joining"
    /\ UNCHANGED <<orchVars, syncVars, intakeVars, resolveVars, patchVars, pool_backend>>

\* _spawn of a group task acquires the semaphore, and the task runs up to
\* its await of the fetch. In AAD a list without a group is a KeyError
\* before that await: the task raises and gives its slot back at once.
group_task_acquires(g) ==
    /\ pool[g].task = "waiting"
    /\ ~semaphore_locked(pool)
    /\ \/ pool' = [pool EXCEPT ![g].task = "fetching"]
       \/ /\ pool_backend = "aad"
          /\ pool' = [pool EXCEPT ![g].task = "raised", ![g].cause = "no_group"]
    /\ UNCHANGED <<orchVars, syncVars, intakeVars, resolveVars, patchVars, pool_backend, pool_stage>>

\* The fetch raises (backend error; in Gaggle also a list that does not
\* exist): the exception ends the group task, _wrap stores it in the
\* task's future and releases the slot.
group_task_fetch_raises(g) ==
    /\ pool[g].task = "fetching"
    /\ \E n \in PlanSizes(pool_backend) :
        LET k == spawned_operations(FALSE, n) IN
        pool' = [pool EXCEPT ![g].task = "raised", ![g].cause = "fetch",
                             ![g].spawned = k, ![g].waiting = k]
    /\ UNCHANGED <<orchVars, syncVars, intakeVars, resolveVars, patchVars, pool_backend, pool_stage>>

\* The fetch returns: the group task diffs, spawns its operations with
\* spawn_n (which does not wait for a slot) and returns; its slot is released.
group_task_returns(g) ==
    /\ pool[g].task = "fetching"
    /\ \E n \in PlanSizes(pool_backend) :
        LET k == spawned_operations(TRUE, n) IN
        pool' = [pool EXCEPT ![g].task = "returned", ![g].spawned = k,
                             ![g].waiting = k]
    /\ UNCHANGED <<orchVars, syncVars, intakeVars, resolveVars, patchVars, pool_backend, pool_stage>>

\* _spawn of an operation task acquires the semaphore: its remote call is issued.
op_task_acquires(g) ==
    /\ pool[g].waiting > 0
    /\ ~semaphore_locked(pool)
    /\ pool' = [pool EXCEPT ![g].waiting = @ - 1, ![g].active = @ + 1]
    /\ UNCHANGED <<orchVars, syncVars, intakeVars, resolveVars, patchVars, pool_backend, pool_stage>>

\* The operation returns: the slot is released.
op_task_returns(g) ==
    /\ pool[g].active > 0
    /\ pool' = [pool EXCEPT ![g].active = @ - 1, ![g].done = @ + 1]
    /\ UNCHANGED <<orchVars, syncVars, intakeVars, resolveVars, patchVars, pool_backend, pool_stage>>

\* The operation raises: _wrap stores the exception in the task's future
\* (which spawn_n's caller dropped) and releases the slot.
op_task_raises(g) ==
    /\ pool[g].active > 0
    /\ pool' = [pool EXCEPT ![g].active = @ - 1, ![g].failed = @ + 1]
    /\ UNCHANGED <<orchVars, syncVars, intakeVars, resolveVars, patchVars, pool_backend, pool_stage>>

\* join() returns once the pool is empty: sync_all_group_membership returns
\* None, and push_to_gaggle / push_to_aad returns [].
sync_all_group_membership_returns ==
    /\ pool_stage = "joining"
    /\ is_empty(pool)
    /\ pool_stage' = "returned"
    /\ UNCHANGED <<orchVars, syncVars, intakeVars, resolveVars, patchVars, pool_backend, pool>>

InitPool ==
    /\ OrchestrationIdle
    /\ SyncIdle
    /\ IntakeIdle
    /\ ResolveIdle
    /\ PatchIdle
    /\ pool_backend \in {"gaggle", "aad"}
    /\ pool = [g \in PoolGroups |-> NoTask]
    /\ pool_stage = "start"

NextPool ==
    \/ spawn_group_tasks
    \/ \E g \in PoolGroups : group_task_acquires(g)
    \/ \E g \in PoolGroups : group_task_fetch_raises(g)
    \/ \E g \in PoolGroups : group_task_returns(g)
    \/ \E g \in PoolGroups : op_task_acquires(g)
    \/ \E g \in PoolGroups : op_task_returns(g)
    \/ \E g \in PoolGroups : op_task_raises(g)
    \/ sync_all_group_membership_returns

SpecPool == InitPool /\ [][NextPool]_vars

\* The same stage on the event loop: while a task is ready to run, or a
\* remote call is outstanding (the clients have timeouts, so it returns or
\* raises), or join() can return, the loop takes a step.
SpecPoolFair == InitPool /\ [][NextPool]_vars /\ WF_vars(NextPool)

----------------------------------------------------------------------------
(* Claims about the pool of a stage, checked under SpecPool *)

\* Remote calls outstanding: the fetches of the group tasks that hold a
\* slot and the calls of the operation tasks that hold one.
OutstandingCalls == ActiveTasks(pool)
StageReturned == pool_stage = "returned"
SomeOperationFailed == \E g \in DOMAIN pool : pool[g].failed > 0
SomeCallFailed ==
    \E g \in DOMAIN pool : pool[g].failed > 0 \/ pool[g].cause = "fetch"

\* C11: at every moment the remote calls outstanding, counted across all
\* groups of the stage, are at most the size of the pool, which is at most
\* MAX_CONCURRENCY: also while group tasks spawn operations into the pool
\* they run in.
C11_OutstandingCallsWithinCeiling ==
    /\ OutstandingCalls <= PoolSize
    /\ PoolSize <= MAX_CONCURRENCY

\* C11, witness: the pool is full with a group task that still fetches and
\* an operation of another group, and a further operation waits for a slot.
C11_Witness ==
    /\ OutstandingCalls = PoolSize
    /\ \E g \in DOMAIN pool : pool[g].task = "fetching"
    /\ \E g \in DOMAIN pool : pool[g].active > 0 /\ pool[g].waiting > 0

\* C12: when an operation failed, no operation spawned in the stage is
\* lost: every one of them waits, runs, or has run, and once the stage
\* returned every one of them has run to its end.
C12_FailureCancelsNoSibling ==
    SomeOperationFailed =>
        \A g \in DOMAIN pool :
            /\ pool[g].waiting + pool[g].active + pool[g].done + pool[g].failed
                    = pool[g].spawned
            /\ StageReturned =>
                /\ pool[g].task \in {"returned", "raised"}
                /\ pool[g].done + pool[g].failed = pool[g].spawned

\* C12, witness: the stage returned; in one group an operation failed and
\* another one of the same group ran to its end, and so did one of another group.
C12_Witness ==
    /\ StageReturned
    /\ \E g \in DOMAIN pool :
        /\ pool[g].failed > 0
        /\ pool[g].done > 0
        /\ \E h \in DOMAIN pool \ {g} : pool[h].done > 0

C14_FailedCallFailsStage ==
    StageReturned => ~SomeCallFailed

\* Every task of the pool has run to its end: every group task returned or
\* raised, and every operation task spawned returned or raised.
AllTasksFinished ==
    \A g \in DOMAIN pool :
        /\ pool[g].task \in {"returned", "raised"}
        /\ pool[g].waiting = 0
        /\ pool[g].active = 0
        /\ pool[g].done + pool[g].failed = pool[g].spawned
\* Tasks spawned into the pool so far: group tasks and operation tasks.
TasksSpawned ==
    Cardinality({g \in DOMAIN pool : pool[g].task # "none"})
    + SumOver(DOMAIN pool, [g \in DOMAIN pool |-> pool[g].spawned])

\* C22: a sync stage terminates: it eventually returns, also with more
\* tasks than the pool has slots; no task waits forever for a slot; and
\* it returns only once the pool is empty, every task spawned into it
\* having run to its end.
C22_StageTerminates ==
    /\ <>(StageReturned /\ AllTasksFinished)
    /\ [](StageReturned => (is_empty(pool) /\ AllTasksFinished))

\* C22, witness: the stage returned after every group spawned as many
\* operations as the model allows: more tasks than the pool has slots.
C22_Witness ==
    /\ StageReturned
    /\ \A g \in DOMAIN pool : pool[g].spawned = MaxOps
    /\ TasksSpawned > PoolSize

----------------------------------------------------------------------------
(* function_app.py, monday_fns.py: the webhook request, the input of the *)
(* run it starts, and the roster fetch *)

\* function_app.py:56, request_body[:1000]
webhook_body_limit == 1000
\* monday_fns.py:11; board ids are written as text, 9192120251 is wider
\* than the integers of the model checker.
DEFAULT_BOARD_ID == "9192120251"
\* Items of a board.
MaxItems == 2

\* json.loads(request_body[:1000]): a document longer than the limit is cut
\* before its end, and what is left is no JSON.
json_loads(body) ==
    IF body.length > webhook_body_limit THEN JsonInvalid ELSE body.doc

\* dict.get(key, default)
dict_get(o, key, default) ==
    IF key \in DOMAIN o.fields THEN o.fields[key] ELSE default

\* _parse_webhook_body: json.loads raising, and .get on what is not a dict
\* (AttributeError), end in "except Exception: return '', {}".
parse_webhook_body(body) ==
    LET request_json == json_loads(body) IN
    IF request_json.type # "object"
    THEN [challenge |-> JsonString(""), event |-> JsonObject(<<>>)]
    ELSE [challenge |-> dict_get(request_json, "challenge", JsonString("")),
          event |-> dict_get(request_json, "event", JsonObject(<<>>))]

\* client.create_check_status_response(req, instance_id)
create_check_status_response == [status_code |-> 202, challenge |-> JsonUnset]

\* _insert_challenge: response_json["challenge"] = challenge
insert_challenge_dropped(challenge, response) == response
insert_challenge(challenge, response) == [response EXCEPT !.challenge = challenge]

\* MondayUser.__dataclass_fields__
MondayUserFields ==
    {"name", "email", "voice_part", "chorus_emails", "social_emails",
     "section_leader", "section_coordinator"}
\* The field names, spelled out.
FieldChars(f) ==
    CASE f = "name" -> <<"n", "a", "m", "e">>
      [] f = "email" -> <<"e", "m", "a", "i", "l">>
      [] f = "voice_part" -> <<"v", "o", "i", "c", "e", "_", "p", "a", "r", "t">>
      [] f = "chorus_emails" ->
            <<"c", "h", "o", "r", "u", "s", "_", "e", "m", "a", "i", "l", "s">>
      [] f = "social_emails" ->
            <<"s", "o", "c", "i", "a", "l", "_", "e", "m", "a", "i", "l", "s">>
      [] f = "section_leader" ->
            <<"s", "e", "c", "t", "i", "o", "n", "_", "l", "e", "a", "d", "e", "r">>
      [] f = "section_coordinator" ->
            <<"s", "e", "c", "t", "i", "o", "n", "_", "c", "o", "o", "r", "d", "i",
              "n", "a", "t", "o", "r">>

\* inflection.parameterize(title, "_"), on titles of letters and single
\* spaces: lower case, the separator for what is no letter.
Parameterize(title) ==
    [i \in 1..Len(title) |-> IF title[i] = " " THEN "_" ELSE LowerChar(title[i])]

RECURSIVE column_values_into(_, _)
\* from_board_api, the loop: values[field] = column_value["text"] for the
\* columns whose parameterized title is a field of MondayUser.
column_values_into(column_values, values) ==
    IF column_values = <<>> THEN values
    ELSE LET field == Parameterize(Head(column_values).title)
             known == {f \in MondayUserFields : FieldChars(f) = field}
         IN  column_values_into(
                Tail(column_values),
                [f \in DOMAIN values \cup known |->
                    IF f \in known THEN Head(column_values).text ELSE values[f]])

\* MondayUser.from_board_api: cls(**values) is a TypeError unless every
\* field of the dataclass (none has a default) has a value.
from_board_api(board_item) ==
    LET values == column_values_into(board_item.column_values,
                                     [f \in {"name"} |-> board_item.name])
    IN  [raised |-> DOMAIN values # MondayUserFields, values |-> values]

\* The columns a board of the model may have: one per field of MondayUser
\* but name, and one the schema does not know.
Column(title, text) == [title |-> title, text |-> text]
SchemaColumns ==
    << Column(<<"E", "m", "a", "i", "l">>, "b@x"),
       Column(<<"V", "o", "i", "c", "e", " ", "P", "a", "r", "t">>, "Bass 2"),
       Column(<<"C", "h", "o", "r", "u", "s", " ", "E", "m", "a", "i", "l", "s">>, "Yes"),
       Column(<<"S", "o", "c", "i", "a", "l", " ", "E", "m", "a", "i", "l", "s">>, ""),
       Column(<<"S", "e", "c", "t", "i", "o", "n", " ", "L", "e", "a", "d", "e", "r">>, ""),
       Column(<<"S", "e", "c", "t", "i", "o", "n", " ", "C", "o", "o", "r", "d", "i",
                "n", "a", "t", "o", "r">>, "") >>
UnknownColumn == Column(<<"P", "h", "o", "n", "e">>, "555")

\* The items of the model: one with the columns of the schema, one with an
\* unknown column more, one that lacks the last column of the schema.
BoardItems ==
    { [name |-> "B", column_values |-> SchemaColumns],
      [name |-> "B", column_values |-> SchemaColumns \o <<UnknownColumn>>],
      [name |-> "B", column_values |-> SubSeq(SchemaColumns, 1, Len(SchemaColumns) - 1)] }
Boards == UNION {[1..n -> BoardItems] : n \in 0..MaxItems}

\* The bodies of the webhook requests of the model: an empty body, a text
\* that is no JSON, a JSON list, and JSON objects with or without a
\* challenge and with no event, a null event, an event without boardId and
\* an event with one; each short, of exactly the limit, and one byte longer.
WebhookObject(c, e) ==
    JsonObject([k \in {x \in {"challenge", "event"} :
                        \/ x = "challenge" /\ c.type # "unset"
                        \/ x = "event" /\ e.type # "unset"} |->
                    IF k = "challenge" THEN c ELSE e])
EventWithBoard == JsonObject([k \in {"boardId"} |-> JsonNumber("42")])
WebhookDocs ==
    {JsonInvalid, JsonArray}
    \cup {WebhookObject(c, e) :
            c \in {JsonUnset, JsonString("abc")},
            e \in {JsonUnset, JsonNull, JsonObject(<<>>), EventWithBoard}}
WebhookBodies ==
    {[via |-> "webhook", doc |-> JsonInvalid, length |-> 0]}
    \cup {[via |-> "webhook", doc |-> d, length |-> n] :
            d \in WebhookDocs,
            n \in {43, webhook_body_limit, webhook_body_limit + 1}}

\* monday_webhook: the body is parsed, the run is started with the event as
\* its input, and the check-status response is answered with the challenge.
monday_webhook_request ==
    /\ request_body.via = "none"
    /\ \E body \in WebhookBodies :
        LET parsed == parse_webhook_body(body) IN
        /\ request_body' = body
        /\ client_input' = parsed.event
        /\ http_response' = insert_challenge(parsed.challenge,
                                             create_check_status_response)
    /\ UNCHANGED <<orchVars, syncVars, poolVars, resolveVars, patchVars, board_items,
                   pull_result>>

\* scheduled_sync: the run is started with client_input={}.
scheduled_sync_tick ==
    /\ request_body.via = "none"
    /\ request_body' = [NoRequest EXCEPT !.via = "timer"]
    /\ client_input' = JsonObject(<<>>)
    /\ UNCHANGED <<orchVars, syncVars, poolVars, resolveVars, patchVars, http_response,
                   board_items, pull_result>>

\* pull_from_monday / get_monday_roster with the input of the run:
\* webhook_event.get(...) is an AttributeError on what is no dict; the
\* request to the API may fail; then every item goes through from_board_api.
get_monday_roster ==
    /\ client_input.type # "unset"
    /\ pull_result.outcome = "none"
    /\ IF client_input.type # "object"
       THEN pull_result' = [NotPulled EXCEPT !.outcome = "raised",
                                             !.cause = "webhook_event"]
       ELSE LET boardId == dict_get(client_input, "boardId",
                                    JsonNumber(DEFAULT_BOARD_ID))
                users == [i \in DOMAIN board_items |->
                            from_board_api(board_items[i])]
            IN  \E api_ok \in BOOLEAN :
                pull_result' =
                    IF ~api_ok
                    THEN [outcome |-> "raised", cause |-> "api",
                          board_id |-> boardId, roster |-> <<>>]
                    ELSE IF \E i \in DOMAIN users : users[i].raised
                    THEN [outcome |-> "raised", cause |-> "board_item",
                          board_id |-> boardId, roster |-> <<>>]
                    ELSE [outcome |-> "roster", cause |-> "none",
                          board_id |-> boardId,
                          roster |-> [i \in DOMAIN users |-> users[i].values]]
    /\ UNCHANGED <<orchVars, syncVars, poolVars, resolveVars, patchVars, request_body,
                   client_input, http_response, board_items>>

InitIntake ==
    /\ OrchestrationIdle
    /\ SyncIdle
    /\ PoolIdle
    /\ ResolveIdle
    /\ PatchIdle
    /\ request_body = NoRequest
    /\ client_input = JsonUnset
    /\ http_response = NoResponse
    /\ board_items \in Boards
    /\ pull_result = NotPulled

NextIntake ==
    \/ monday_webhook_request
    \/ scheduled_sync_tick
    \/ get_monday_roster

SpecIntake == InitIntake /\ [][NextIntake]_vars

----------------------------------------------------------------------------
(* Claims about the webhook and the roster fetch, checked under SpecIntake *)

Answered == http_response.status_code # 0
Pulled == pull_result.outcome # "none"
\* The body is {"challenge": c, "event": {"boardId": b}}.
ChallengeAndBoard ==
    /\ request_body.via = "webhook"
    /\ request_body.doc.type = "object"
    /\ DOMAIN request_body.doc.fields = {"challenge", "event"}
    /\ request_body.doc.fields["event"].type = "object"
    /\ DOMAIN request_body.doc.fields["event"].fields = {"boardId"}
\* The run was started without a boardId.
NoBoardGiven ==
    /\ client_input.type = "object"
    /\ "boardId" \notin DOMAIN client_input.fields
\* What C16 says of a request, a response and a fetch.
ChallengeEchoedBoardUsed ==
    /\ Answered => http_response.challenge = request_body.doc.fields["challenge"]
    /\ (Pulled /\ pull_result.cause # "webhook_event") =>
            pull_result.board_id = request_body.doc.fields["event"].fields["boardId"]

\* C16, as stated: for a body {"challenge": c, "event": {"boardId": b}} the
\* response carries c unchanged and the run fetches board b; a run started
\* without a boardId (timer, or event without one) fetches the default board.
C16_ChallengeEchoedBoardUsed ==
    /\ ChallengeAndBoard => ChallengeEchoedBoardUsed
    /\ (Pulled /\ NoBoardGiven) =>
            pull_result.board_id = JsonNumber(DEFAULT_BOARD_ID)

\* C16, amended: the same for a body of at most 1000 bytes.
C16_ChallengeEchoedBoardUsedWithinLimit ==
    /\ (ChallengeAndBoard /\ request_body.length <= webhook_body_limit) =>
            ChallengeEchoedBoardUsed
    /\ (Pulled /\ NoBoardGiven) =>
            pull_result.board_id = JsonNumber(DEFAULT_BOARD_ID)
    /\ request_body.via = "timer" => NoBoardGiven

\* C16, witness: a body of exactly 1000 bytes with challenge "abc" and
\* boardId 42 got its answer, and the roster of board 42 was fetched.
C16_Witness ==
    /\ ChallengeAndBoard
    /\ request_body.length = webhook_body_limit
    /\ http_response = [status_code |-> 202, challenge |-> JsonString("abc")]
    /\ pull_result.outcome = "roster"
    /\ pull_result.board_id = JsonNumber("42")
    /\ Len(pull_result.roster) > 0

\* C17: for every webhook body the handler answers; when the body cannot be
\* parsed the challenge is "" and the event {}; and the payload does not
\* make the run fail: the fetch does not raise on the run's input, and after
\* a failed parse it asks for the default board.
C17_MalformedBodyNeverFatal ==
    request_body.via = "webhook" =>
        /\ http_response.status_code = 202
        /\ json_loads(request_body).type # "object" =>
            /\ http_response.challenge = JsonString("")
            /\ client_input = JsonObject(<<>>)
            /\ Pulled => pull_result.board_id = JsonNumber(DEFAULT_BOARD_ID)
        /\ pull_result.cause # "webhook_event"

\* C18: for every board, with unknown columns or lacking columns of the
\* schema, the fetch returns a roster with one person per item instead of
\* failing, a missing attribute being left out.
C18_MissingColumnsTolerated ==
    (Pulled /\ pull_result.cause \notin {"webhook_event", "api"}) =>
        /\ pull_result.outcome = "roster"
        /\ Len(pull_result.roster) = Len(board_items)
        /\ \A i \in DOMAIN board_items :
            DOMAIN pull_result.roster[i] \subseteq MondayUserFields

----------------------------------------------------------------------------
(* msgraph_fns.py: _update_AAD_user_properties *)

\* _monday_user_to_msgraph_user: MONDAY_TO_MSGRAPH_FIELD_MAPPING sets mail,
\* display_name and department; the other attributes stay None (the
\* extension it carries is patched apart, by _update_AAD_user_extensions).
monday_user_to_msgraph_user(monday_user) ==
    [User EXCEPT !.mail = monday_user.email,
                 !.display_name = monday_user.name,
                 !.department = monday_user.voice_part]

\* bool(value) of an attribute: None and "" are false.
Truthy(value) == value \notin {NoValue, ""}

\* "if requested_field and requested_field != aad_field"
need_patch_any_difference(requested_field, aad_field) ==
    requested_field # aad_field
need_patch(requested_field, aad_field) ==
    Truthy(requested_field) /\ requested_field # aad_field

\* The request body _update_AAD_user_properties builds: the attributes it
\* sets, with their values.
properties_request_body(aad, requested) ==
    [field \in {f \in USER_FIELDS_CAN_PATCH : need_patch(requested[f], aad[f])}
        |-> requested[field]]

\* PATCH /users/{id}: the attributes of the body replace the user's.
patch(user, body) ==
    [field \in DOMAIN user |->
        IF field \in DOMAIN body THEN body[field] ELSE user[field]]

\* The roster entries the update is run for: with and without a name, with
\* and without a voice part.
PatchedPeople ==
    { MondayUser(n, "b@x", v, YES, "", "") :
        n \in {"", "B"}, v \in {"", "Bass 2"} }
\* The user the update is run against: one the directory listed, with any
\* of its attributes unset, empty, equal to the roster's or different; or
\* User(id=new_user_id, mail=...) after an invitation.
ListedUsers ==
    { [id |-> "2", mail |-> "b@x", display_name |-> n, mobile_phone |-> p,
       department |-> d, job_title |-> j] :
        n \in {NoValue, "B", "B-old"}, p \in {NoValue, "555"},
        d \in {NoValue, "", "Bass 2", "Alto 1"}, j \in {NoValue, "Treasurer"} }
InvitedUser == [User EXCEPT !.id = "5", !.mail = "b@x"]

\* Nothing to patch: no request.
update_AAD_user_properties_in_sync ==
    /\ patch_pc = "start"
    /\ DOMAIN properties_request_body(aad_user, roster_user) = {}
    /\ patch_pc' = "in_sync"
    /\ UNCHANGED <<orchVars, syncVars, poolVars, intakeVars, resolveVars,
                   aad_user, roster_user, directory_user, patch_calls>>

\* need_update: one PATCH with the request body.
update_AAD_user_properties ==
    /\ patch_pc = "start"
    /\ LET request == properties_request_body(aad_user, roster_user) IN
        /\ DOMAIN request # {}
        /\ patch_calls' = Append(patch_calls, request)
        /\ directory_user' = patch(directory_user, request)
    /\ patch_pc' = "patched"
    /\ UNCHANGED <<orchVars, syncVars, poolVars, intakeVars, resolveVars,
                   aad_user, roster_user>>

\* need_update, and the PATCH raises: the directory keeps the user as it was.
update_AAD_user_properties_patch_raises ==
    /\ patch_pc = "start"
    /\ LET request == properties_request_body(aad_user, roster_user) IN
        /\ DOMAIN request # {}
        /\ patch_calls' = Append(patch_calls, request)
    /\ patch_pc' = "raised"
    /\ UNCHANGED <<orchVars, syncVars, poolVars, intakeVars, resolveVars,
                   aad_user, roster_user, directory_user>>

InitPatch ==
    /\ OrchestrationIdle
    /\ SyncIdle
    /\ PoolIdle
    /\ IntakeIdle
    /\ ResolveIdle
    /\ aad_user \in ListedUsers \cup {InvitedUser}
    /\ roster_user \in {monday_user_to_msgraph_user(u) : u \in PatchedPeople}
    /\ directory_user = aad_user
    /\ patch_calls = <<>>
    /\ patch_pc = "start"

NextPatch ==
    \/ update_AAD_user_properties_in_sync
    \/ update_AAD_user_properties
    \/ update_AAD_user_properties_patch_raises

SpecPatch == InitPatch /\ [][NextPatch]_vars

----------------------------------------------------------------------------
(* Claims about the property update, checked under SpecPatch *)

\* The update has run to its end, or to the exception of its PATCH.
UpdateRan == patch_pc \in {"in_sync", "patched", "raised"}
\* The attributes the claim lets a patch set: patchable, not empty in the
\* roster entry, and different from the directory's value.
FieldsToSet ==
    {f \in USER_FIELDS_CAN_PATCH :
        Truthy(roster_user[f]) /\ roster_user[f] # aad_user[f]}

\* C25: the property update never clears an attribute: a PATCH sets only
\* attributes whose roster value is non-empty and differs from the
\* directory's, to the roster value; an attribute that is empty or missing
\* in the roster entry keeps its directory value; there is no PATCH when no
\* attribute is to set, and one when there is.
C25_PatchNeverClears ==
    UpdateRan =>
        /\ \A i \in DOMAIN patch_calls :
            /\ DOMAIN patch_calls[i] = FieldsToSet
            /\ \A f \in DOMAIN patch_calls[i] : patch_calls[i][f] = roster_user[f]
        /\ \A f \in USER_FIELDS :
            /\ ~Truthy(roster_user[f]) => directory_user[f] = aad_user[f]
            /\ Truthy(aad_user[f]) => Truthy(directory_user[f])
            /\ directory_user[f] \in {aad_user[f], roster_user[f]}
        /\ Len(patch_calls) = (IF FieldsToSet = {} THEN 0 ELSE 1)
        /\ patch_pc = "patched" =>
            \A f \in FieldsToSet : directory_user[f] = roster_user[f]

\* C25, witness: a roster entry with a new name and no voice part, against
\* a user with a department, a phone and a job title: the PATCH set the
\* name only, and the user kept the three.
C25_Witness ==
    /\ patch_pc = "patched"
    /\ roster_user.department = ""
    /\ DOMAIN patch_calls[1] = {"display_name"}
    /\ directory_user.display_name = "B"
    /\ directory_user.department = "Alto 1"
    /\ directory_user.mobile_phone = "555"
    /\ directory_user.job_title = "Treasurer"

====
